---- MODULE Spec2Model ----
(***************************************************************************)
(* A model of LambPDF (src/LambPDF/LambPDF.py): the facade's operations    *)
(* over BytesIO buffers holding PDF documents, its S3 transfers, and the   *)
(* Textract job loop of textract_pdf_from_s3.                              *)
(*                                                                         *)
(* A document is the parsed content of a byte string: kind "empty" is the  *)
(* zero-length byte string, kind "pdf" a well-formed file with its page    *)
(* sequence and AcroForm, kind "corrupt" any other byte string (such as a  *)
(* proper suffix of a file).  A buffer is a BytesIO: its bytes and its     *)
(* read position ("start", "inside" or "end").  Lengths are integers in    *)
(* points; a float quotient is rounded down to a whole point.              *)
(***************************************************************************)
EXTENDS Integers, Sequences, FiniteSets, TLC

VARIABLES
    heap,       \* the BytesIO objects the caller holds, in creation order
    s3,         \* the bucket: key -> document, or NoObject
    last,       \* the last facade call: operation, arguments, outcome
    calls,      \* the number of facade calls made so far
    pc,         \* textract_pdf_from_s3: the position of the call
    job,        \* the Textract service: the job's status, "NONE" before submit
    job_status, \* the local job_status of the call (line 335)
    next_token, \* the local next_token of the call (line 322 / 365), 0 is None
    final_output_by_page, \* the local defaultdict(list) (line 321)
    results,    \* the service: the result pages served so far, with their tokens
    waits,      \* history: the non-terminal answers of the status loop,
                \* saturating; forgotten once the results are queried
    raised      \* the error textract_pdf_from_s3 raised, "none" if none

vars == <<heap, s3, last, calls, pc, job, job_status, next_token,
          final_output_by_page, results, waits, raised>>

bufVars == <<heap, s3, last, calls>>
ocrVars == <<pc, job, job_status, next_token, final_output_by_page,
             results, waits, raised>>

---------------------------------------------------------------------------
(* Bounds of the model. *)

\* the caller makes at most this many calls on its buffers
MaxCalls == 1
\* copies ranges over 0..MaxCopies
MaxCopies == 2
\* concatenate_pdfs is called with lists of at most this length
MaxList == 2
\* the history variable waits counts up to this many non-terminal answers
MaxPolls == 2
\* the service splits a job's blocks over at most this many result pages
MaxResultPages == 2
\* a result page carries at most this many blocks
MaxChunk == 2

---------------------------------------------------------------------------
(* Documents, pages and buffers. *)

NoAcro == [present |-> FALSE, fields |-> <<>>, need |-> FALSE, da |-> "none"]

EmptyBytes == [kind |-> "empty", pages |-> <<>>, acro |-> NoAcro]

CorruptBytes == [kind |-> "corrupt", pages |-> <<>>, acro |-> NoAcro]

Pdf(pages, acro) == [kind |-> "pdf", pages |-> pages, acro |-> acro]

Page(id, box, annots) ==
    [id |-> id, box |-> box, annots |-> annots, text |-> <<>>, img |-> FALSE]

Widget(t) == [t |-> t, v |-> "", ro |-> FALSE]

\* BytesIO(bytes): a new buffer positioned at its start
BytesIO(data) == [data |-> data, pos |-> "start"]

\* the position of the end of the bytes (the start, for zero bytes)
EndPos(data) == IF data.kind = "empty" THEN "start" ELSE "end"

\* buffer.read(): the bytes from the read position to the end
Read(buf) ==
    IF buf.pos = "start" \/ buf.data.kind = "empty" THEN buf.data
    ELSE IF buf.pos = "end" THEN EmptyBytes
    ELSE CorruptBytes

\* the buffer after read(): positioned at its end
AfterRead(buf) == [buf EXCEPT !.pos = EndPos(buf.data)]

\* buffer.getvalue(): all the bytes, whatever the read position
GetValue(buf) == buf.data

\* buffer.getbuffer().nbytes == 0
ZeroBytes(buf) == buf.data.kind = "empty"

\* pdfrw.PdfReader(fdata=...) / pypdf.PdfReader(...) accept the bytes
Parses(data) == data.kind = "pdf"

Width(box) == box[3] - box[1]

Height(box) == box[4] - box[2]

(* The documents the caller starts with. *)
NoPages == Pdf(<<>>, NoAcro)

OnePage ==
    Pdf(<<Page(1, <<10, 20, 110, 220>>, <<Widget("f1")>>)>>, NoAcro)

TwoPages ==
    Pdf(<<Page(2, <<0, 0, 100, 200>>, <<Widget("f2")>>),
          Page(3, <<0, 0, 200, 100>>, <<Widget("f3")>>)>>,
        [present |-> TRUE, fields |-> <<"f2", "f3">>, need |-> FALSE,
         da |-> "Helv"])

Keys == {"in", "out"}

NoObject == [kind |-> "absent", pages |-> <<>>, acro |-> NoAcro]

NoCall == [op |-> "none", ins |-> <<>>, n |-> 0, flag |-> FALSE,
           err |-> "none", out |-> 0, tmp |-> <<>>]

Call(op, ins, n, flag, err, out, tmp) ==
    [op |-> op, ins |-> ins, n |-> n, flag |-> flag, err |-> err,
     out |-> out, tmp |-> tmp]

---------------------------------------------------------------------------
(* fill_pdf_form, lines 94-120, and the with_temp_files wrapper, 29-39. *)

\* the inputs fill_pdf_form is called with: the field names of data
FillData == {{}, {"f2", "zz"}}

\* fillpdfs.write_fillable_pdf on one widget annotation: a named field gets
\* its value, names that are not fields of the page are ignored, flatten
\* makes the widget read-only
FillAnnot(a, data, flatten) ==
    [a EXCEPT !.v = IF a.t \in data THEN "x" ELSE @,
              !.ro = IF flatten THEN TRUE ELSE @]

FillPage(p, data, flatten) ==
    [p EXCEPT !.annots =
        [k \in 1..Len(p.annots) |-> FillAnnot(p.annots[k], data, flatten)]]

\* fillpdfs.write_fillable_pdf(temp_in, temp_out, data, flatten): any error
\* of the library (bytes that are no PDF, a file with no AcroForm to mark
\* NeedAppearances in) leaves the wrapper as PDFProcessingError
FillResult(bytes, data, flatten) ==
    IF ~Parses(bytes) \/ ~bytes.acro.present
    THEN [err |-> "PDFProcessingError", data |-> EmptyBytes]
    ELSE [err |-> "none",
          data |-> Pdf([k \in 1..Len(bytes.pages) |->
                            FillPage(bytes.pages[k], data, flatten)],
                       [bytes.acro EXCEPT !.need = TRUE])]

---------------------------------------------------------------------------
(* flatten_as_images, lines 122-160. *)

\* the ratio of the rendered image page to the source page
RasterFactors == {2, 3}

\* fillpdfs.flatten_pdf(as_images=True) on one page: an image-backed page
\* at the origin, r times the size of the source page, no annotations
Rasterize(p, r) ==
    [id |-> p.id, box |-> <<0, 0, Width(p.box) * r, Height(p.box) * r>>,
     annots |-> <<>>, text |-> <<>>, img |-> TRUE]

\* a uniform factor derived from flattened page 1 alone
PageScaleUniform(original_width, flattened, k) ==
    [num |-> original_width, den |-> Width(flattened[1].box)]

\* lines 151-152: scale_x = original_width / current_width, for page k
PageScale(original_width, flattened, k) ==
    [num |-> original_width, den |-> Width(flattened[k].box)]

\* page.scale_by(scale_x), line 153: every coordinate of the box times the
\* factor
ScaleBy(p, scale) ==
    [p EXCEPT !.box = [c \in 1..4 |-> (p.box[c] * scale.num) \div scale.den]]

\* lines 135-160, with the wrapper: err, the pages of temp_out, the document
\* written to output_buffer and the position output_buffer is returned at
FlattenResult(bytes, r, retain_x_scale) ==
    IF ~Parses(bytes) \/ bytes.pages = <<>>
    THEN [err |-> "PDFProcessingError", tmp |-> <<>>, data |-> EmptyBytes,
          pos |-> "start"]
    ELSE LET flattened == [k \in 1..Len(bytes.pages) |->
                              Rasterize(bytes.pages[k], r)]
             original_width == Width(bytes.pages[1].box)
         IN  IF retain_x_scale
             THEN [err |-> "none", tmp |-> flattened,
                   data |-> Pdf([k \in 1..Len(flattened) |->
                                    ScaleBy(flattened[k],
                                        PageScale(original_width, flattened, k))],
                                NoAcro),
                   pos |-> "start"]
             ELSE [err |-> "none", tmp |-> flattened,
                   data |-> Pdf(flattened, NoAcro), pos |-> "end"]

---------------------------------------------------------------------------
(* append_blank_page, lines 162-201. *)

\* lines 176-188: MediaBox = [0, 0, MediaBox[2], MediaBox[3]] of page 1
BlankPage(first_page) ==
    [id |-> 0, box |-> <<0, 0, first_page.box[3], first_page.box[4]>>,
     annots |-> <<>>, text |-> <<>>, img |-> FALSE]

\* writer.addpages(pages), writer.addpage(page): the pages go to the end
AddPagesFront(written, pages) == pages \o written

AddPages(written, pages) == written \o pages

AppendBlankResult(bytes) ==
    IF ~Parses(bytes) \/ bytes.pages = <<>>
    THEN [err |-> "PDFProcessingError", data |-> EmptyBytes]
    ELSE [err |-> "none",
          data |-> Pdf(AddPages(AddPages(<<>>, bytes.pages),
                                <<BlankPage(bytes.pages[1])>>), NoAcro)]

---------------------------------------------------------------------------
(* concatenate_pdfs, lines 203-230. *)

RECURSIVE ConcatLoop(_, _)
\* lines 216-222: the loop over pdf_buffers, written so far in `written`
ConcatLoop(bufs, written) ==
    IF bufs = <<>> THEN [err |-> "none", data |-> Pdf(written, NoAcro)]
    ELSE IF ZeroBytes(Head(bufs)) THEN ConcatLoop(Tail(bufs), written)
    ELSE IF ~Parses(GetValue(Head(bufs)))
         THEN [err |-> "PDFProcessingError", data |-> EmptyBytes]
    ELSE ConcatLoop(Tail(bufs),
                    AddPages(written, GetValue(Head(bufs)).pages))

\* lines 211-230: only the empty list is rejected, before the loop
ConcatResult(bufs) ==
    IF bufs = <<>> THEN [err |-> "ValueError", data |-> EmptyBytes]
    ELSE ConcatLoop(bufs, <<>>)

---------------------------------------------------------------------------
(* duplicate_pages, lines 232-257. *)

RECURSIVE DuplicateLoop(_, _, _)
\* lines 248-249: for _ in range(copies): writer.addpages(reader.pages)
DuplicateLoop(pages, copies, written) ==
    IF copies <= 0 THEN written
    ELSE DuplicateLoop(pages, copies - 1, AddPages(written, pages))

\* one pass too few
DuplicateOnceLess(bytes, copies) ==
    IF copies < 1 THEN [err |-> "ValueError", data |-> EmptyBytes]
    ELSE IF ~Parses(bytes)
         THEN [err |-> "PDFProcessingError", data |-> EmptyBytes]
    ELSE [err |-> "none",
          data |-> Pdf(DuplicateLoop(bytes.pages, copies - 1, <<>>), NoAcro)]

DuplicateResult(bytes, copies) ==
    IF copies < 1 THEN [err |-> "ValueError", data |-> EmptyBytes]
    ELSE IF ~Parses(bytes)
         THEN [err |-> "PDFProcessingError", data |-> EmptyBytes]
    ELSE [err |-> "none",
          data |-> Pdf(DuplicateLoop(bytes.pages, copies, <<>>), NoAcro)]

---------------------------------------------------------------------------
(* embed_form_annotations, lines 259-294. *)

\* the form's annotations first
MergeAnnotsFormFirst(bg_annots, form_annots) == form_annots \o bg_annots

\* line 271: (bg_page.Annots or []) + form_page.Annots
MergeAnnots(bg_annots, form_annots) == bg_annots \o form_annots

\* zip(background_pdf.pages, form_pdf.pages) pairs the indices below this
ZipLen(bg_pages, form_pages) ==
    IF Len(bg_pages) <= Len(form_pages) THEN Len(bg_pages) ELSE Len(form_pages)

\* lines 269-271: the pages of background_pdf after the loop; the loop
\* assigns to the pages it pairs and leaves the others in background_pdf
EmbedPages(bg_pages, form_pages) ==
    [k \in 1..Len(bg_pages) |->
        IF k <= ZipLen(bg_pages, form_pages) /\ form_pages[k].annots # <<>>
        THEN [bg_pages[k] EXCEPT
                 !.annots = MergeAnnots(@, form_pages[k].annots)]
        ELSE bg_pages[k]]

\* lines 273-285: the AcroForm of background_pdf after the merge
EmbedAcro(bg_acro, form_acro) ==
    IF ~form_acro.present THEN bg_acro
    ELSE [present |-> TRUE,
          fields |-> bg_acro.fields \o form_acro.fields,
          need |-> TRUE,
          da |-> IF form_acro.da # "none" THEN form_acro.da ELSE bg_acro.da]

\* lines 264-294: background_pdf itself is written out (line 288)
EmbedResult(bg_bytes, form_bytes) ==
    IF ~Parses(bg_bytes) \/ ~Parses(form_bytes)
    THEN [err |-> "PDFProcessingError", data |-> EmptyBytes]
    ELSE [err |-> "none",
          data |-> Pdf(EmbedPages(bg_bytes.pages, form_bytes.pages),
                       EmbedAcro(bg_bytes.acro, form_bytes.acro))]

---------------------------------------------------------------------------
(* overlay_ocr_on_pdf, lines 375-423. *)

\* a Textract block as the overlay reads it; Left and Top in hundredths of
\* the page
Block(type, left, top, text) ==
    [BlockType |-> type, Left |-> left, Top |-> top, Text |-> text]

\* the maps overlay_ocr_on_pdf is called with
BlockMaps ==
    << <<>>,
       1 :> <<Block("WORD", 10, 20, "hi"), Block("PAGE", 0, 0, ""),
              Block("LINE", 50, 50, "line")>> >>

\* blocks_by_page.get(i + 1, []), line 395
PageBlocks(blocks_by_page, k) ==
    IF k \in DOMAIN blocks_by_page THEN blocks_by_page[k] ELSE <<>>

\* lines 398-407: the string drawn for one block, none for other types
DrawString(block, p) ==
    IF block.BlockType \in {"WORD", "LINE"}
    THEN << <<(block.Left * p.box[3]) \div 100 - 2,
              p.box[4] - (block.Top * p.box[4]) \div 100 - 9,
              block.Text>> >>
    ELSE <<>>

RECURSIVE OverlayPage(_, _)
\* lines 397-409: the text layer of one page
OverlayPage(blocks, p) ==
    IF blocks = <<>> THEN <<>>
    ELSE DrawString(Head(blocks), p) \o OverlayPage(Tail(blocks), p)

\* lines 380-423: no handler wraps the readers' errors
OverlayResult(bytes, blocks_by_page) ==
    IF ~Parses(bytes) THEN [err |-> "PdfReadError", data |-> EmptyBytes]
    ELSE [err |-> "none",
          data |-> Pdf([k \in 1..Len(bytes.pages) |->
                          [bytes.pages[k] EXCEPT !.text =
                              @ \o OverlayPage(PageBlocks(blocks_by_page, k),
                                               bytes.pages[k])]],
                       NoAcro)]

---------------------------------------------------------------------------
(* download_pdf_from_s3 and upload_pdf_to_s3, lines 54-92. *)

\* lines 62-73: a ClientError of get_object (no such key, or any other
\* rejection) is raised as S3Error
DownloadResult(object, client_error) ==
    IF client_error \/ object.kind = "absent"
    THEN [err |-> "S3Error", data |-> EmptyBytes]
    ELSE [err |-> "none", data |-> object]

\* lines 84-92: Body = pdf_buffer.getvalue(); a ClientError is raised as
\* S3Error
UploadResult(buf, client_error) ==
    IF client_error THEN [err |-> "S3Error", data |-> EmptyBytes]
    ELSE [err |-> "none", data |-> GetValue(buf)]

---------------------------------------------------------------------------
(* The facade's calls on the caller's buffers. *)

Bufs == 1..Len(heap)

\* the lists of at most n of the caller's buffers
ListsUpTo(n) == UNION {[1..k -> Bufs] : k \in 0..n}

\* a call ends: a returned buffer joins the caller's buffers, a raised error
\* returns none
Return(heap_after, op, ins, n, flag, res, pos, tmp) ==
    /\ calls < MaxCalls
    /\ calls' = calls + 1
    /\ IF res.err = "none"
       THEN /\ heap' = Append(heap_after, [data |-> res.data, pos |-> pos])
            /\ last' = Call(op, ins, n, flag, "none", Len(heap) + 1, tmp)
       ELSE /\ heap' = heap_after
            /\ last' = Call(op, ins, n, flag, res.err, 0, tmp)

\* lines 54-73
download_pdf_from_s3 ==
    \E key \in Keys, client_error \in BOOLEAN :
        /\ Return(heap, "download_pdf_from_s3", <<>>, 0, client_error,
                  DownloadResult(s3[key], client_error), "start", <<>>)
        /\ UNCHANGED <<s3, ocrVars>>

\* lines 75-92
upload_pdf_to_s3 ==
    \E key \in Keys, i \in Bufs, client_error \in BOOLEAN :
        LET res == UploadResult(heap[i], client_error)
        IN  /\ calls < MaxCalls
            /\ calls' = calls + 1
            /\ s3' = IF res.err = "none" THEN [s3 EXCEPT ![key] = res.data]
                     ELSE s3
            /\ last' = Call("upload_pdf_to_s3", <<i>>, 0, client_error,
                            res.err, 0, <<>>)
            /\ UNCHANGED <<heap, ocrVars>>

\* lines 94-120: template_buffer.read() moves the caller's buffer to its end
\* (line 109); the result is BytesIO(temp_out.read()), at its start
fill_pdf_form ==
    \E i \in Bufs, data \in FillData, annot_flatten \in BOOLEAN :
        /\ Return([heap EXCEPT ![i] = AfterRead(@)], "fill_pdf_form", <<i>>,
                  Cardinality(data), annot_flatten,
                  FillResult(Read(heap[i]), data, annot_flatten), "start",
                  <<>>)
        /\ UNCHANGED <<s3, ocrVars>>

\* lines 122-160: input_buffer.read() moves the caller's buffer to its end
\* (line 136); with retain_x_scale the result is rewound (line 156), without
\* it the result is returned as written (lines 158-160)
flatten_as_images ==
    \E i \in Bufs, r \in RasterFactors, retain_x_scale \in BOOLEAN :
        LET res == FlattenResult(Read(heap[i]), r, retain_x_scale)
        IN  /\ Return([heap EXCEPT ![i] = AfterRead(@)], "flatten_as_images",
                      <<i>>, r, retain_x_scale, res, res.pos, res.tmp)
            /\ UNCHANGED <<s3, ocrVars>>

\* lines 162-201
append_blank_page ==
    \E i \in Bufs :
        /\ Return(heap, "append_blank_page", <<i>>, 0, FALSE,
                  AppendBlankResult(GetValue(heap[i])), "start", <<>>)
        /\ UNCHANGED <<s3, ocrVars>>

\* lines 203-230
concatenate_pdfs ==
    \E pdf_buffers \in ListsUpTo(MaxList) :
        /\ Return(heap, "concatenate_pdfs", pdf_buffers, 0, FALSE,
                  ConcatResult([k \in 1..Len(pdf_buffers) |->
                                   heap[pdf_buffers[k]]]), "start", <<>>)
        /\ UNCHANGED <<s3, ocrVars>>

\* lines 497-505: the deprecated name, return self.concatenate_pdfs(...)
merge_pdfs == concatenate_pdfs

\* lines 232-257
duplicate_pages ==
    \E i \in Bufs, copies \in 0..MaxCopies :
        /\ Return(heap, "duplicate_pages", <<i>>, copies, FALSE,
                  DuplicateResult(GetValue(heap[i]), copies), "start", <<>>)
        /\ UNCHANGED <<s3, ocrVars>>

\* lines 259-294
embed_form_annotations ==
    \E bg \in Bufs, form \in Bufs :
        /\ Return(heap, "embed_form_annotations", <<bg, form>>, 0, FALSE,
                  EmbedResult(GetValue(heap[bg]), GetValue(heap[form])),
                  "start", <<>>)
        /\ UNCHANGED <<s3, ocrVars>>

\* lines 375-423: pypdf.PdfReader(input_buffer) seeks in the caller's buffer
\* and leaves it wherever its last read ended; an empty file is rejected
\* before any read
overlay_ocr_on_pdf ==
    \E i \in Bufs, m \in DOMAIN BlockMaps, pos \in {"inside", "end"} :
        LET res == OverlayResult(GetValue(heap[i]), BlockMaps[m])
        IN  /\ Return(IF heap[i].data.kind = "empty" THEN heap
                      ELSE [heap EXCEPT ![i].pos = pos],
                      "overlay_ocr_on_pdf", <<i>>, m, FALSE, res, "start",
                      <<>>)
            /\ UNCHANGED <<s3, ocrVars>>

---------------------------------------------------------------------------

Init ==
    /\ heap = <<BytesIO(EmptyBytes), BytesIO(NoPages), BytesIO(OnePage),
                BytesIO(TwoPages)>>
    /\ calls = 0
    /\ s3 = [key \in Keys |-> IF key = "in" THEN TwoPages ELSE NoObject]
    /\ last = NoCall
    /\ pc = "submit"
    /\ job = "NONE"
    /\ job_status = "NONE"
    /\ next_token = 0
    /\ final_output_by_page = <<>>
    /\ results = <<>>
    /\ waits = 0
    /\ raised = "none"

Next ==
    \/ download_pdf_from_s3
    \/ upload_pdf_to_s3
    \/ fill_pdf_form
    \/ flatten_as_images
    \/ append_blank_page
    \/ concatenate_pdfs
    \/ merge_pdfs
    \/ duplicate_pages
    \/ embed_form_annotations
    \/ overlay_ocr_on_pdf

Spec == Init /\ [][Next]_vars

---------------------------------------------------------------------------
(* textract_pdf_from_s3, lines 296-373, and the Textract service it calls. *)

\* the JobStatus values of the service
Statuses == {"IN_PROGRESS", "SUCCEEDED", "FAILED", "PARTIAL_SUCCESS"}

\* breaks on SUCCEEDED alone
BreaksOnSucceeded(status) == status = "SUCCEEDED"

\* line 336: job_status in ['SUCCEEDED', 'FAILED']
Breaks(status) == status \in {"SUCCEEDED", "FAILED"}

\* what a block of the service says of its page: a Page key, or none
BlockKinds ==
    {[HasPage |-> TRUE, Page |-> 1], [HasPage |-> TRUE, Page |-> 2],
     [HasPage |-> FALSE, Page |-> 0]}

\* the k-th block of result page n
ResultBlock(n, k, kind) ==
    [Id |-> <<n, k>>, HasPage |-> kind.HasPage, Page |-> kind.Page]

\* the result pages the service may hold at index n: the blocks, and whether
\* a NextToken follows
ResultPages(n) ==
    {[Blocks |-> [k \in 1..len |-> ResultBlock(n, k, kinds[k])],
      NextToken |-> IF more THEN n + 1 ELSE 0] :
        len \in 0..MaxChunk, kinds \in [1..MaxChunk -> BlockKinds],
        more \in {m \in BOOLEAN : m => n < MaxResultPages}}

\* line 362: block.get('Page', 0)
PageNum(block) == IF block.HasPage THEN block.Page ELSE 0

\* line 363: final_output_by_page[page_num].append(block), on a
\* defaultdict(list)
AppendBlock(by_page, block) ==
    LET page_num == PageNum(block)
    IN  IF page_num \in DOMAIN by_page
        THEN [by_page EXCEPT ![page_num] = Append(@, block)]
        ELSE by_page @@ (page_num :> <<block>>)

RECURSIVE AppendBlocks(_, _)
\* lines 361-363: for block in output['Blocks']
AppendBlocks(by_page, blocks) ==
    IF blocks = <<>> THEN by_page
    ELSE AppendBlocks(AppendBlock(by_page, Head(blocks)), Tail(blocks))

\* asks for the first result page again
RequestFirst(token) == 1

\* lines 350-352: NextToken is passed when set; without it the service
\* answers with the first result page
Request(token) == IF token = 0 THEN 1 ELSE token

\* lines 306-322: start_document_text_detection; a ClientError is raised as
\* TextractError
Submit ==
    /\ pc = "submit"
    /\ \E client_error \in BOOLEAN :
        IF client_error
        THEN /\ pc' = "raised"
             /\ raised' = "TextractError"
             /\ UNCHANGED <<job, final_output_by_page, next_token>>
        ELSE /\ pc' = "poll"
             /\ job' = "IN_PROGRESS"
             /\ final_output_by_page' = <<>>
             /\ next_token' = 0
             /\ UNCHANGED raised
    /\ UNCHANGED <<job_status, results, waits, bufVars>>

\* the service: the job ends
JobEnds ==
    /\ job = "IN_PROGRESS"
    /\ job' \in Statuses \ {"IN_PROGRESS"}
    /\ UNCHANGED <<pc, job_status, next_token, final_output_by_page, results,
                   waits, raised, bufVars>>

\* lines 328-347: one status query; a ClientError and a FAILED job are
\* raised as TextractError, SUCCEEDED leaves the loop, any other status
\* goes to sleep
Poll ==
    /\ pc = "poll"
    /\ \E client_error \in BOOLEAN :
        IF client_error
        THEN /\ pc' = "raised"
             /\ raised' = "TextractError"
             /\ UNCHANGED <<job_status, waits>>
        ELSE /\ job_status' = job
             /\ IF Breaks(job)
                THEN IF job = "FAILED"
                     THEN pc' = "raised" /\ raised' = "TextractError"
                     ELSE pc' = "collect" /\ UNCHANGED raised
                ELSE pc' = "sleep" /\ UNCHANGED raised
             /\ waits' = IF Breaks(job) \/ waits = MaxPolls THEN waits
                         ELSE waits + 1
    /\ UNCHANGED <<job, next_token, final_output_by_page, results, bufVars>>

\* line 343: time.sleep(5), then the next status query
Sleep ==
    /\ pc = "sleep"
    /\ pc' = "poll"
    /\ UNCHANGED <<job, job_status, next_token, final_output_by_page, results,
                   waits, raised, bufVars>>

\* lines 349-373: one result query; the service answers with the result
\* page asked for, which it fixes when it first serves it
Collect ==
    /\ pc = "collect"
    /\ \E client_error \in BOOLEAN :
        IF client_error
        THEN /\ pc' = "raised"
             /\ raised' = "TextractError"
             /\ UNCHANGED <<next_token, final_output_by_page, results>>
        ELSE LET n == Request(next_token)
             IN  \E output \in IF n <= Len(results) THEN {results[n]}
                               ELSE ResultPages(n) :
                    /\ results' = IF n <= Len(results) THEN results
                                  ELSE Append(results, output)
                    /\ final_output_by_page' =
                          AppendBlocks(final_output_by_page, output.Blocks)
                    /\ next_token' = output.NextToken
                    /\ pc' = IF output.NextToken = 0 THEN "returned"
                             ELSE "collect"
                    /\ UNCHANGED raised
    /\ waits' = 0
    /\ UNCHANGED <<job, job_status, bufVars>>

\* the steps of the call itself
CallStep == Submit \/ Poll \/ Sleep \/ Collect

NextOcr ==
    \/ Submit
    \/ JobEnds
    \/ Poll
    \/ Sleep
    \/ Collect

\* the calling thread runs: a step of the call that can be taken is taken
FairSpecOcr == Init /\ [][NextOcr]_vars /\ WF_vars(CallStep)

---------------------------------------------------------------------------
(* The claims about the calls on buffers, under Spec. *)

\* the document in the k-th buffer passed to the last call
In(k) == heap[last.ins[k]].data

\* the document in the buffer the last call returned
Out == heap[last.out].data

Returned == last.err = "none" /\ last.out \in 1..Len(heap)

NonZero(i) == ~ZeroBytes(heap[i])

RECURSIVE PagesBefore(_, _)
\* the number of pages in the first k buffers of a list
PagesBefore(list, k) ==
    IF k = 0 THEN 0
    ELSE PagesBefore(list, k - 1) + Len(heap[list[k]].data.pages)

\* C1: concatenate_pdfs on a non-empty list returns a document whose pages
\* are the pages of the non-zero-byte buffers in list order: page j of the
\* k-th such buffer is output page (pages of the buffers before it) + j, and
\* there are no other pages; zero-byte buffers raise no error.
C1_ConcatenateInListOrder ==
    (last.op = "concatenate_pdfs" /\ last.ins # <<>>) =>
        LET kept == SelectSeq(last.ins, NonZero)
        IN  /\ Returned
            /\ Out.kind = "pdf"
            /\ Len(Out.pages) = PagesBefore(kept, Len(kept))
            /\ \A k \in 1..Len(kept) :
                 \A j \in 1..Len(heap[kept[k]].data.pages) :
                    Out.pages[PagesBefore(kept, k - 1) + j]
                        = heap[kept[k]].data.pages[j]

\* a list with a zero-byte buffer and a buffer with pages, in two orders of
\* distinct buffers with pages
C1_Witness ==
    /\ last.op = "concatenate_pdfs"
    /\ Len(last.ins) = 2
    /\ Returned
    /\ \/ ZeroBytes(heap[last.ins[1]]) /\ Len(In(2).pages) = 2
       \/ Len(In(1).pages) = 2 /\ Len(In(2).pages) = 1

\* C2: concatenate_pdfs fails whenever no buffer is left after the zero-byte
\* buffers are skipped, for the empty list and for a list of zero-byte
\* buffers alike.
C2_FailsWhenNothingIsLeft ==
    (/\ last.op = "concatenate_pdfs"
     /\ \A k \in 1..Len(last.ins) : ZeroBytes(heap[last.ins[k]]))
        => (last.err # "none" /\ last.out = 0)

\* C3: duplicate_pages with copies = n >= 1 returns the input pages repeated
\* n times in order (n * |P| pages, output page k is input page k mod |P|);
\* with n < 1 it fails and returns no buffer.
C3_DuplicateRepeatsInOrder ==
    (last.op = "duplicate_pages" /\ Parses(In(1))) =>
        IF last.n >= 1
        THEN /\ Returned
             /\ Len(Out.pages) = last.n * Len(In(1).pages)
             /\ \A k \in 1..Len(Out.pages) :
                    Out.pages[k]
                        = In(1).pages[((k - 1) % Len(In(1).pages)) + 1]
        ELSE last.err # "none" /\ last.out = 0

C3_Witness ==
    /\ last.op = "duplicate_pages"
    /\ last.n = 2
    /\ Returned
    /\ Len(In(1).pages) = 2
    /\ Len(Out.pages) = 4

\* C4: append_blank_page returns the input pages in order followed by one
\* page whose media box equals that of input page 1 in all four
\* coordinates; a document without pages fails with PDFProcessingError.
C4_BlankPageHasFirstMediaBox ==
    (last.op = "append_blank_page" /\ Parses(In(1))) =>
        IF In(1).pages # <<>>
        THEN /\ Returned
             /\ Len(Out.pages) = Len(In(1).pages) + 1
             /\ \A k \in 1..Len(In(1).pages) : Out.pages[k] = In(1).pages[k]
             /\ Out.pages[Len(Out.pages)].box = In(1).pages[1].box
        ELSE last.err = "PDFProcessingError" /\ last.out = 0

Min(a, b) == IF a <= b THEN a ELSE b

\* C5 as stated: the output of embed_form_annotations has the pages below
\* min(pages(background), pages(form)) only, each with the background's
\* annotations followed by the form page's.
C5_ZipDropsPagesBeyondShorter ==
    (last.op = "embed_form_annotations" /\ Returned) =>
        /\ Len(Out.pages) = Min(Len(In(1).pages), Len(In(2).pages))
        /\ \A k \in 1..Len(Out.pages) :
              Out.pages[k].annots = In(1).pages[k].annots \o In(2).pages[k].annots

\* C5, amended: the output has every page of the background, in order; a
\* page below min(pages(background), pages(form)) carries the background's
\* annotations followed by the form page's, a background page at or beyond
\* the form's length is kept as it is, and nothing of a form page at or
\* beyond the background's length is in the output.
C5_EmbedKeepsBackgroundPages ==
    (last.op = "embed_form_annotations" /\ Returned) =>
        /\ Len(Out.pages) = Len(In(1).pages)
        /\ \A k \in 1..Len(Out.pages) :
              IF k <= Len(In(2).pages)
              THEN /\ Out.pages[k].annots
                        = In(1).pages[k].annots \o In(2).pages[k].annots
                   /\ [Out.pages[k] EXCEPT !.annots = <<>>]
                        = [In(1).pages[k] EXCEPT !.annots = <<>>]
              ELSE Out.pages[k] = In(1).pages[k]

\* a background with more pages than the form, which has annotations
C5_Witness ==
    /\ last.op = "embed_form_annotations"
    /\ Returned
    /\ Len(In(1).pages) > Len(In(2).pages)
    /\ Len(In(2).pages) >= 1
    /\ In(2).pages[1].annots # <<>>
    /\ In(1).pages[1].annots # <<>>

\* C6 as stated: with retain_x_scale one factor, from page 1 alone, scales
\* every flattened page: output page 1 has the width of source page 1 and
\* every output page keeps the ratio of its flattened width to that of
\* flattened page 1.
C6_UniformScaleFromPageOne ==
    (last.op = "flatten_as_images" /\ last.flag /\ Returned) =>
        /\ Width(Out.pages[1].box) = Width(In(1).pages[1].box)
        /\ \A k \in 1..Len(Out.pages) :
              Width(Out.pages[k].box) * Width(last.tmp[1].box)
                  = Width(last.tmp[k].box) * Width(Out.pages[1].box)

\* C6, amended: with retain_x_scale every flattened page is scaled by its
\* own factor, the width of source page 1 divided by the width of that
\* flattened page: every output page, page 1 and a page whose flattened
\* width differs from flattened page 1's alike, has exactly the width of
\* source page 1, and its height is scaled by the same factor.
C6_EveryPageGetsFirstWidth ==
    (last.op = "flatten_as_images" /\ last.flag /\ Returned) =>
        /\ Len(Out.pages) = Len(In(1).pages)
        /\ \A k \in 1..Len(Out.pages) :
              /\ Width(Out.pages[k].box) = Width(In(1).pages[1].box)
              /\ Height(Out.pages[k].box)
                    = (Height(last.tmp[k].box) * Width(In(1).pages[1].box))
                          \div Width(last.tmp[k].box)

\* a document whose second flattened page is wider than its first
C6_Witness ==
    /\ last.op = "flatten_as_images"
    /\ last.flag
    /\ Returned
    /\ Len(last.tmp) = 2
    /\ Width(last.tmp[2].box) # Width(last.tmp[1].box)

\* C9: no transform changes a buffer passed to it, bytes or read position,
\* and each returns a buffer positioned at its start.
C9_BuffersKeptAndResultAtStart ==
    [][/\ \A i \in 1..Len(heap) : heap'[i] = heap[i]
       /\ Len(heap') > Len(heap) => heap'[Len(heap')].pos = "start"]_vars

\* C10: every failure raised is S3Error (transfers), TextractError (the
\* Textract job) or PDFProcessingError (every transform, rejected arguments
\* and the OCR overlay included).
C10_ThreeFailureKinds ==
    /\ last.op \in {"download_pdf_from_s3", "upload_pdf_to_s3"}
          => last.err \in {"none", "S3Error"}
    /\ last.op \in {"fill_pdf_form", "flatten_as_images", "append_blank_page",
                    "concatenate_pdfs", "duplicate_pages",
                    "embed_form_annotations", "overlay_ocr_on_pdf"}
          => last.err \in {"none", "PDFProcessingError"}
    /\ raised \in {"none", "TextractError"}

---------------------------------------------------------------------------
(* The claims about textract_pdf_from_s3, under FairSpecOcr. *)

Ended == pc \in {"returned", "raised"}

====
